---- MODULE Spec2Model ----
(***************************************************************************)
(* Risk-matrix visual: rating extraction, cell grouping and the two        *)
(* intra-cell packing strategies (best-fit rectangular grid in visual.ts,  *)
(* hexagonal close-packing in hexgridalgorithm.ts).                        *)
(*                                                                         *)
(* Numbers.  The source computes in IEEE doubles; the model computes the   *)
(* same expressions exactly, in fixed point.  Strategy A lengths are in    *)
(* tenths of a pixel (Px), Strategy B lengths in 1/40000 pixel (HexPx), so *)
(* that every product with 0.10, 0.095, 0.70, 0.75 and 0.35 is an integer  *)
(* for whole-pixel cell sizes.  A quotient such as usableW / (cols - 1) is *)
(* kept as a fraction [n, d]; sqrt(3) is kept symbolic and compared by     *)
(* squaring.                                                               *)
(***************************************************************************)
EXTENDS Integers, Sequences, FiniteSets, TLC

VARIABLES
    risks,      \* Visual.risks: the extracted Risk items (visual.ts:68)
    placed,     \* the Risk[] returned by the last calculateJitter (visual.ts:485)
    band,       \* <<x.bandwidth(), y.bandwidth()>> of the last renderChart, tenths of px
    data,       \* Visual.data: the severity table bound to the cell rectangles (visual.ts:69)
    cells,      \* the keys of the rect.cell elements in cellsG (visual.ts:463)
    points,     \* the circle.risk-point elements in pointsG, in document order (visual.ts:489)
    categorical,\* extraction harness: the rows of dataView.categorical
    arrays,     \* the arrays create_base_matrix has built, in call order; a
                \* reference to one is its position
    moduleData, \* helper.ts `let data`: the reference it holds, 0 while undefined
    returned,   \* the references handed to callers other than the visual, in call order
    pc,         \* Spec: "constructed", then how the last update ended ("rendered",
                \* "returned"); harnesses: "input", then "A", "B" or "extracted"
    n,          \* bucket size handed to bestGrid/positionsFor or hexPositions
    bandW,      \* x.bandwidth() of the cell, whole pixels
    bandH,      \* y.bandwidth() of the cell, whole pixels
    out         \* result of the packing call

\* the state of helper.ts and of its callers
helperVars == <<arrays, moduleData, returned>>

vars == <<risks, placed, band, data, cells, points, categorical, helperVars, pc, n, bandW, bandH, out>>

(***************************************************************************)
(* Bounds                                                                  *)
(***************************************************************************)
MaxN == 6
BigBucket == 50
MaxCellK == 16
MaxRows == 3

BucketSizes == (0..MaxN) \cup {BigBucket}
CellSizes == {4 * k : k \in 0..MaxCellK}
\* the cell sizes of the packing harness, plus the 200 x 150 cell of the
\* end-to-end scenario
CellPairs == (CellSizes \X CellSizes) \cup {<<200, 150>>}

(***************************************************************************)
(* Arithmetic helpers                                                      *)
(***************************************************************************)
Max2(a, b) == IF a >= b THEN a ELSE b
Min2(a, b) == IF a <= b THEN a ELSE b
Abs(a) == IF a < 0 THEN -a ELSE a
\* Math.ceil(a / b) for a >= 0, b > 0
CeilDiv(a, b) == (a + b - 1) \div b
\* Math.ceil(Math.sqrt(m)) for m >= 0
CeilSqrt(m) == CHOOSE k \in 0..m : k * k >= m /\ \A j \in 0..(k - 1) : j * j < m

\* a/b <= c/d for a, c >= 0 and b, d > 0, by continued-fraction descent
\* (no product is formed, so nothing overflows)
RECURSIVE FracLeq(_, _, _, _)
FracLeq(a, b, c, d) ==
    IF (a \div b) # (c \div d) THEN (a \div b) < (c \div d)
    ELSE IF a % b = 0 THEN TRUE
    ELSE IF c % d = 0 THEN FALSE
    ELSE FracLeq(d, c % d, b, a % b)

\* sqrt(3) * a <= b for a >= 0
Sqrt3Leq(a, b) ==
    IF b < 0 THEN FALSE
    ELSE IF a = 0 THEN TRUE
    ELSE IF b = 0 THEN FALSE
    ELSE FracLeq(3 * a, b, b, a)

\* fractions [n, d] with d > 0
Frac(a, b) == [n |-> a, d |-> b]
FracLess(f, g) == f.n * g.d < g.n * f.d
FracEq(f, g) == f.n * g.d = g.n * f.d
FracMin(f, g) == IF FracLess(g, f) THEN g ELSE f

(***************************************************************************)
(* Strategy A: best-fit rectangular grid (visual.ts calculateJitter).      *)
(* Lengths in tenths of a pixel.                                           *)
(***************************************************************************)
Px(p) == 10 * p

RADIUS_FACTOR_PCT == 10
INNER_PAD_FR == 2
RADIUS_FLOOR == 4

\* const cellW = Math.max(1, x.bandwidth())
cellDim(bw) == Max2(Px(1), bw)
\* variant: the radius taken from the larger cell dimension
radiusOfLarger(cellW, cellH) ==
    Max2(Px(RADIUS_FLOOR), (Max2(cellW, cellH) * RADIUS_FACTOR_PCT) \div 100)
\* const radius = Math.max(4, Math.min(cellW, cellH) * RADIUS_FACTOR)
radiusOf(cellW, cellH) ==
    Max2(Px(RADIUS_FLOOR), (Min2(cellW, cellH) * RADIUS_FACTOR_PCT) \div 100)
\* const innerPadX = Math.max(2, radius * INNER_PAD_FR)
innerPad(radius) == Max2(Px(2), radius * INNER_PAD_FR)
\* const usableW = Math.max(0, cellW - innerPadX * 2)
usable(cell, pad) == Max2(0, cell - pad * 2)

\* hardCols / hardRows: Math.max(1, Math.floor(usable / (radius * 2)))
hardCount(usableSpan, radius) == Max2(1, usableSpan \div (radius * 2))
\* maxColsTry
maxColsTry(m, radius, usableW) ==
    Max2(1, Min2(hardCount(usableW, radius), CeilSqrt(m) + 6))
\* variant: Math.floor in place of Math.ceil
rowsForFloor(m, cols) == Max2(1, m \div cols)
\* const rows = Math.max(1, Math.ceil(n / cols))
rowsFor(m, cols) == Max2(1, CeilDiv(m, cols))
\* actualPitchX = cols > 1 ? usableW / (cols - 1) : usableW
actualPitch(count, usableSpan) ==
    IF count > 1 THEN Frac(usableSpan, count - 1) ELSE Frac(usableSpan, 1)
\* the pitch field pushed for a candidate: Math.min(actualPitchX, actualPitchY)
minPitch(m, cols, usableW, usableH) ==
    FracMin(actualPitch(cols, usableW), actualPitch(rowsFor(m, cols), usableH))

\* the column counts for which the search loop pushes a candidate
candidates(m, radius, usableW, usableH) ==
    { cols \in 1..maxColsTry(m, radius, usableW) :
        /\ rowsFor(m, cols) <= hardCount(usableH, radius)
        /\ ~ ( \/ FracLess(actualPitch(cols, usableW), Frac(2 * radius, 1))
               \/ FracLess(actualPitch(rowsFor(m, cols), usableH), Frac(2 * radius, 1)) ) }

\* variant: among equal pitches the last pushed candidate wins
bestColsLast(m, radius, usableW, usableH) ==
    LET cand == candidates(m, radius, usableW, usableH) IN
    CHOOSE c \in cand :
        \A d \in cand :
            \/ FracLess(minPitch(m, d, usableW, usableH), minPitch(m, c, usableW, usableH))
            \/ /\ FracEq(minPitch(m, d, usableW, usableH), minPitch(m, c, usableW, usableH))
               /\ c >= d
\* candidates.sort((a, b) => b.pitch - a.pitch)[0]: the sort is stable and the
\* candidates were pushed in ascending cols, so the first of the largest
\* pitches is the one with the fewest columns
bestCols(m, radius, usableW, usableH) ==
    LET cand == candidates(m, radius, usableW, usableH) IN
    CHOOSE c \in cand :
        \A d \in cand :
            \/ FracLess(minPitch(m, d, usableW, usableH), minPitch(m, c, usableW, usableH))
            \/ /\ FracEq(minPitch(m, d, usableW, usableH), minPitch(m, c, usableW, usableH))
               /\ c <= d

\* variant: the fallback piles every item on one lattice point
bestGridPile(m, radius, usableW, usableH) ==
    IF candidates(m, radius, usableW, usableH) = {}
    THEN [cols |-> 1, rows |-> 1,
          pitchX |-> Frac(2 * radius, 1), pitchY |-> Frac(2 * radius, 1)]
    ELSE LET best == bestCols(m, radius, usableW, usableH) IN
         [cols |-> best, rows |-> rowsFor(m, best),
          pitchX |-> actualPitch(best, usableW),
          pitchY |-> actualPitch(rowsFor(m, best), usableH)]
bestGrid(m, radius, usableW, usableH) ==
    IF candidates(m, radius, usableW, usableH) = {}
    THEN [cols |-> 1, rows |-> Max2(1, m),
          pitchX |-> Frac(2 * radius, 1), pitchY |-> Frac(2 * radius, 1)]
    ELSE LET best == bestCols(m, radius, usableW, usableH) IN
         [cols |-> best, rows |-> rowsFor(m, best),
          pitchX |-> actualPitch(best, usableW),
          pitchY |-> actualPitch(rowsFor(m, best), usableH)]

\* variant: the lattice starts at the cell centre instead of being centred on it
latticeCoordUncentred(idx, count, pitch) ==
    Frac(pitch.n * (2 * idx), 2 * pitch.d)
\* cx0 + c * effPitchX with cx0 = -((cols - 1) * effPitchX) / 2, as a fraction
latticeCoord(idx, count, pitch) ==
    Frac(pitch.n * (2 * idx - (count - 1)), 2 * pitch.d)

\* variant: one position per lattice point instead of one per item
positionsForLattice(m, cols, rows, effPitchX, effPitchY) ==
    [i \in 1..(cols * rows) |->
        LET r == ((i - 1) \div cols) % rows
            c == (i - 1) % cols
        IN [x |-> latticeCoord(c, cols, effPitchX),
            y |-> latticeCoord(r, rows, effPitchY)]]
positionsFor(m, cols, rows, effPitchX, effPitchY) ==
    [i \in 1..m |->
        LET r == ((i - 1) \div cols) % rows
            c == (i - 1) % cols
        IN [x |-> latticeCoord(c, cols, effPitchX),
            y |-> latticeCoord(r, rows, effPitchY)]]

\* the per-bucket part of calculateJitter for a cell of the given bandwidths
packGrid(m, bwX, bwY) ==
    LET cellW == cellDim(bwX)
        cellH == cellDim(bwY)
        radius == radiusOf(cellW, cellH)
        usableW == usable(cellW, innerPad(radius))
        usableH == usable(cellH, innerPad(radius))
        best == bestGrid(m, radius, usableW, usableH)
    IN [radius |-> radius,
        cellW |-> cellW, cellH |-> cellH,
        usableW |-> usableW, usableH |-> usableH,
        accepted |-> candidates(m, radius, usableW, usableH) # {},
        offsets |-> positionsFor(m, best.cols, best.rows, best.pitchX, best.pitchY)]

(***************************************************************************)
(* Strategy B: hexagonal close-packing (hexgridalgorithm.ts).              *)
(* Lengths in 1/40000 pixel.  An offset is [x, y] in lattice units: x      *)
(* counts quarters of pitchX and y counts halves of pitchY, so that the    *)
(* staggered rows and the sqrt(3) in pitchY stay exact.                    *)
(***************************************************************************)
HexPx(p) == 40000 * p

HEX_RADIUS_FACTOR_PERMILLE == 95
HEX_GAP_FACTOR_PCT == 70
HEX_INNER_PAD_PCT == 75
HEX_ROW_GAP_PCT == 35

\* const cellW = Math.max(1, x.bandwidth())
hexCellDim(bw) == Max2(HexPx(1), bw)
\* const radius = Math.max(4, Math.min(cellW, cellH) * HEX_RADIUS_FACTOR)
hexRadius(cellW, cellH) ==
    Max2(HexPx(RADIUS_FLOOR), (Min2(cellW, cellH) \div 1000) * HEX_RADIUS_FACTOR_PERMILLE)
\* const gapX = Math.max(2, radius * HEX_GAP_FACTOR)
hexGapX(radius) == Max2(HexPx(2), (radius \div 100) * HEX_GAP_FACTOR_PCT)
\* const pitchX = (radius * 2) + gapX
hexPitchX(radius) == (radius * 2) + hexGapX(radius)
\* the rational part gapX * 0.35 of pitchY = Math.sqrt(3) * radius + gapX * 0.35
hexRowGap(radius) == (hexGapX(radius) * HEX_ROW_GAP_PCT) \div 100
\* const padX = Math.max(2, radius * HEX_INNER_PAD_FR)
hexPad(radius) == Max2(HexPx(2), (radius * HEX_INNER_PAD_PCT) \div 100)

\* k * pitchY <= span, i.e. sqrt(3) * k * radius <= span - k * gapX * 0.35
rowsFit(k, span, radius) == Sqrt3Leq(k * radius, span - k * hexRowGap(radius))
\* Math.floor(usableH / pitchY)
floorByPitchY(span, radius) ==
    CHOOSE k \in 0..(span \div radius) :
        rowsFit(k, span, radius) /\ ~ rowsFit(k + 1, span, radius)

\* const cols = Math.max(1, Math.floor(usableW / pitchX))
hexCols(usableW, radius) == Max2(1, usableW \div hexPitchX(radius))
\* const rows = Math.max(1, Math.floor(usableH / pitchY))
hexRows(usableH, radius) == Max2(1, floorByPitchY(usableH, radius))

\* the lattice point pushed by the nested loops for row r, column c:
\* cx = cx0 + offset + c * pitchX with cx0 = -gridW / 2,
\* gridW = (cols - 1) * pitchX + (cols > 1 ? pitchX * 0.5 : 0); cy = cy0 + r * pitchY
hexPoint(r, c, cols, rows) ==
    [x |-> (4 * c) + (IF r % 2 = 1 THEN 2 ELSE 0)
              - ((2 * (cols - 1)) + (IF cols > 1 THEN 1 ELSE 0)),
     y |-> (2 * r) - (rows - 1)]

\* for (; placed < n; placed++) pos.push(pos[placed % pos.length]);
\* placed equals pos.length on entry and both grow by one per iteration
RECURSIVE hexReuse(_, _)
hexReuse(pos, m) ==
    IF Len(pos) >= m THEN pos
    ELSE hexReuse(Append(pos, pos[(Len(pos) % Len(pos)) + 1]), m)

hexPositions(m, radius, usableW, usableH) ==
    LET cols == hexCols(usableW, radius)
        rows == hexRows(usableH, radius)
        filled == Min2(m, cols * rows)
    IN IF m <= 1 THEN << [x |-> 0, y |-> 0] >>
       ELSE IF cols = 1 /\ rows = 1 THEN [i \in 1..m |-> [x |-> 0, y |-> 0]]
       ELSE hexReuse([j \in 1..filled |->
                         hexPoint((j - 1) \div cols, (j - 1) % cols, cols, rows)], m)

\* the per-bucket part of the hexagonal calculateJitter
packHex(m, bwX, bwY) ==
    LET cellW == hexCellDim(bwX)
        cellH == hexCellDim(bwY)
        radius == hexRadius(cellW, cellH)
        usableW == usable(cellW, hexPad(radius))
        usableH == usable(cellH, hexPad(radius))
    IN [radius |-> radius,
        cellW |-> cellW, cellH |-> cellH,
        usableW |-> usableW, usableH |-> usableH,
        cols |-> hexCols(usableW, radius),
        rows |-> hexRows(usableH, radius),
        offsets |-> hexPositions(m, radius, usableW, usableH)]

(***************************************************************************)
(* The visual (visual.ts): update = extractData + renderChart, the latter  *)
(* calling calculateJitter with the band widths of the current viewport.   *)
(***************************************************************************)
\* variant: the consequence levels listed from the most severe
riskConsequenceLevelsDescending ==
    <<"Catastrophic", "Major", "Moderate", "Minor", "Insignificant">>
riskConsequenceLevels == <<"Insignificant", "Minor", "Moderate", "Major", "Catastrophic">>
riskLikelihoodLevels == <<"Rare", "Unlikely", "Possible", "Likely", "Almost Certain">>

margin_top == 40
margin_bottom == 40
margin_left == 60
margin_right == 40

\* raw cell values of the data view: a number (in tenths), a string, or undefined
Num(t) == [t |-> "num", v |-> t]
Str(s) == [t |-> "str", v |-> s]
Undefined == [t |-> "undefined", v |-> 0]

NaN == [finite |-> FALSE, v |-> 0]
\* Number(v): strings that are numerals convert, every other string is NaN
Number(v) ==
    IF v.t = "num" THEN [finite |-> TRUE, v |-> v.v]
    ELSE IF v.t = "str" /\ v.v = "3" THEN [finite |-> TRUE, v |-> 30]
    ELSE IF v.t = "str" /\ v.v = "" THEN [finite |-> TRUE, v |-> 0]
    ELSE NaN

NoIndex == [ok |-> FALSE, idx |-> 0]
\* variant: only the upper bound is checked
clampIndexNoMin(v) ==
    LET num == Number(v) IN
    IF ~ num.finite THEN NoIndex
    ELSE LET f == num.v \div 10 IN
         IF f > 5 THEN NoIndex ELSE [ok |-> TRUE, idx |-> f]
\* clampIndex(v, min = 1, max = 5): null unless floor(Number(v)) is in min..max
clampIndex(v) ==
    LET num == Number(v) IN
    IF ~ num.finite THEN NoIndex
    ELSE LET f == num.v \div 10 IN
         IF f < 1 \/ f > 5 THEN NoIndex ELSE [ok |-> TRUE, idx |-> f]

\* variant: every item given the index of the first row of the column
riskOfFirstRow(row, idx) ==
    [category |-> row.label,
     consequenceIdx |-> clampIndex(row.consequence).idx,
     likelihoodIdx |-> clampIndex(row.likelihood).idx,
     selectionId |-> 0,
     rowIndex |-> 0]
\* the element of this.risks made from row idx (0-based), for a kept row
riskOf(row, idx) ==
    [category |-> row.label,
     consequenceIdx |-> clampIndex(row.consequence).idx,
     likelihoodIdx |-> clampIndex(row.likelihood).idx,
     selectionId |-> idx,
     rowIndex |-> idx]

\* categoryColumn.values.map(...).filter(r => !!r)
RECURSIVE mapFilter(_, _)
mapFilter(rows, idx) ==
    IF idx > Len(rows) THEN << >>
    ELSE LET row == rows[idx]
             keep == clampIndex(row.consequence).ok /\ clampIndex(row.likelihood).ok
         IN (IF keep THEN << riskOf(row, idx - 1) >> ELSE << >>)
                \o mapFilter(rows, idx + 1)

\* variant: each kept row put in front of the list instead of behind it
extractDataUnshift(rows) ==
    LET kept == mapFilter(rows, 1)
    IN [i \in 1..Len(kept) |-> kept[Len(kept) + 1 - i]]
\* extractData on a data view with a categorical mapping
extractData(rows) == mapFilter(rows, 1)

NoLabel == ""
\* variant: the level list indexed by key instead of key - 1
consequenceLabelFromKey(key) ==
    IF key \in 0..(Len(riskConsequenceLevels) - 1)
    THEN riskConsequenceLevels[key + 1] ELSE NoLabel
consequenceLabelFromIndex(key) ==
    IF key - 1 \in 0..(Len(riskConsequenceLevels) - 1)
    THEN riskConsequenceLevels[(key - 1) + 1] ELSE NoLabel
likelihoodLabelFromIndex(key) ==
    IF key - 1 \in 0..(Len(riskLikelihoodLevels) - 1)
    THEN riskLikelihoodLevels[(key - 1) + 1] ELSE NoLabel

\* d3.scaleBand().domain(<5 levels>).range([0, range]).padding(0.03).bandwidth(),
\* in tenths of a pixel: step = range / (5 - 0.03 + 2 * 0.03), bandwidth = step * 0.97
bandwidth(range) == (970 * range) \div 503

\* the key of d3.group: `${d.consequenceIdx}-${d.likelihoodIdx}`
groupKey(d) == <<d.consequenceIdx, d.likelihoodIdx>>

\* the keys of d3.group(this.risks, key) in Map iteration order (first occurrence)
RECURSIVE groupKeys(_, _)
groupKeys(items, seen) ==
    IF items = << >> THEN << >>
    ELSE IF groupKey(Head(items)) \in seen THEN groupKeys(Tail(items), seen)
    ELSE << groupKey(Head(items)) >>
            \o groupKeys(Tail(items), seen \cup {groupKey(Head(items))})

\* variant: each item put in front of its group instead of behind it
groupOfUnshift(items, key) ==
    LET g == SelectSeq(items, LAMBDA d : groupKey(d) = key)
    IN [i \in 1..Len(g) |-> g[Len(g) + 1 - i]]
\* the value of one group: the items with that key, in list order
groupOf(items, key) == SelectSeq(items, LAMBDA d : groupKey(d) = key)

\* const [cIdxStr, lIdxStr] = key.split("-"), each then through Number(): a
\* minus sign in the key is a separator too, and Number("") is 0
keyIndices(key) ==
    IF key[1] < 0 THEN <<0, -key[1]>>
    ELSE IF key[2] < 0 THEN <<key[1], 0>>
    ELSE <<key[1], key[2]>>

\* variant: the bucket size taken from the row index of the bucket's last item
placeGroupByRowIndex(group, key, bwX, bwY) ==
    LET cLabel == consequenceLabelFromIndex(keyIndices(key)[1])
        lLabel == likelihoodLabelFromIndex(keyIndices(key)[2])
        res == packGrid(group[Len(group)].rowIndex + 1, bwX, bwY)
    IN IF cLabel = NoLabel \/ lLabel = NoLabel THEN << >>
       ELSE [i \in 1..Len(group) |->
                [category |-> group[i].category,
                 consequenceIdx |-> group[i].consequenceIdx,
                 likelihoodIdx |-> group[i].likelihoodIdx,
                 selectionId |-> group[i].selectionId,
                 rowIndex |-> group[i].rowIndex,
                 consequenceLabel |-> cLabel,
                 likelihoodLabel |-> lLabel,
                 jitterX |-> res.offsets[i].x,
                 jitterY |-> res.offsets[i].y,
                 radius |-> res.radius]]
\* the body of the `for (const [key, group] of groups.entries())` loop
placeGroup(group, key, bwX, bwY) ==
    LET cLabel == consequenceLabelFromIndex(keyIndices(key)[1])
        lLabel == likelihoodLabelFromIndex(keyIndices(key)[2])
        res == packGrid(Len(group), bwX, bwY)
    IN IF cLabel = NoLabel \/ lLabel = NoLabel THEN << >>
       ELSE [i \in 1..Len(group) |->
                [category |-> group[i].category,
                 consequenceIdx |-> group[i].consequenceIdx,
                 likelihoodIdx |-> group[i].likelihoodIdx,
                 selectionId |-> group[i].selectionId,
                 rowIndex |-> group[i].rowIndex,
                 consequenceLabel |-> cLabel,
                 likelihoodLabel |-> lLabel,
                 jitterX |-> res.offsets[i].x,
                 jitterY |-> res.offsets[i].y,
                 radius |-> res.radius]]

RECURSIVE placeGroups(_, _, _, _)
placeGroups(items, keys, bwX, bwY) ==
    IF keys = << >> THEN << >>
    ELSE placeGroup(groupOf(items, Head(keys)), Head(keys), bwX, bwY)
            \o placeGroups(items, Tail(keys), bwX, bwY)

calculateJitter(items, bwX, bwY) ==
    placeGroups(items, groupKeys(items, {}), bwX, bwY)

\* the band widths renderChart derives from options.viewport
bandsOf(viewport) ==
    << bandwidth(Max2(0, Max2(0, viewport[1]) - (margin_left + margin_right))),
       bandwidth(Max2(0, Max2(0, viewport[2]) - (margin_top + margin_bottom))) >>

\* inputs of update: the rows of the categorical data view and the viewport
RowChoices ==
    { [label |-> "R1", consequence |-> Num(30), likelihood |-> Num(20)],
      [label |-> "R2", consequence |-> Num(37), likelihood |-> Num(20)],
      [label |-> "R3", consequence |-> Num(50), likelihood |-> Str("3")],
      [label |-> "R4", consequence |-> Str("nonsense"), likelihood |-> Num(20)],
      [label |-> "R5", consequence |-> Num(0), likelihood |-> Num(20)],
      [label |-> "R6", consequence |-> Num(30), likelihood |-> Num(60)] }

RECURSIVE SeqsUpTo(_, _)
SeqsUpTo(S, len) ==
    IF len = 0 THEN { << >> }
    ELSE LET shorter == SeqsUpTo(S, len - 1) IN
         shorter \cup { Append(q, e) : q \in {r \in shorter : Len(r) = len - 1}, e \in S }

RowLists == SeqsUpTo(RowChoices, MaxRows)
\* viewports whose plot area is a multiple of 503 px, so that the band widths
\* are whole tenths of a pixel
Viewports == { <<100, 80>>, <<603, 583>> }

NoOut == [radius |-> 0, offsets |-> << >>]

\* variant: the colours numbered from 1
MatrixCellFromOne(c, l, colour, risk) ==
    [consequence |-> c, likelihood |-> l, colour |-> colour + 1, risk |-> risk]
MatrixCell(c, l, colour, risk) ==
    [consequence |-> c, likelihood |-> l, colour |-> colour, risk |-> risk]

\* the severity table of helper.ts, in the order of the array literal
create_base_matrix ==
    << MatrixCell("Insignificant", "Rare", 0, "Low"),
       MatrixCell("Insignificant", "Unlikely", 0, "Low"),
       MatrixCell("Insignificant", "Possible", 0, "Low"),
       MatrixCell("Insignificant", "Likely", 0, "Moderate"),
       MatrixCell("Insignificant", "Almost Certain", 1, "High"),
       MatrixCell("Minor", "Rare", 0, "Low"),
       MatrixCell("Minor", "Unlikely", 0, "Low"),
       MatrixCell("Minor", "Possible", 1, "Moderate"),
       MatrixCell("Minor", "Likely", 1, "High"),
       MatrixCell("Minor", "Almost Certain", 1, "High"),
       MatrixCell("Moderate", "Rare", 0, "Low"),
       MatrixCell("Moderate", "Unlikely", 1, "Moderate"),
       MatrixCell("Moderate", "Possible", 1, "High"),
       MatrixCell("Moderate", "Likely", 2, "High"),
       MatrixCell("Moderate", "Almost Certain", 2, "Extreme"),
       MatrixCell("Major", "Rare", 1, "High"),
       MatrixCell("Major", "Unlikely", 1, "High"),
       MatrixCell("Major", "Possible", 2, "Extreme"),
       MatrixCell("Major", "Likely", 3, "Extreme"),
       MatrixCell("Major", "Almost Certain", 3, "Extreme"),
       MatrixCell("Catastrophic", "Rare", 2, "High"),
       MatrixCell("Catastrophic", "Unlikely", 2, "Extreme"),
       MatrixCell("Catastrophic", "Possible", 3, "Extreme"),
       MatrixCell("Catastrophic", "Likely", 3, "Extreme"),
       MatrixCell("Catastrophic", "Almost Certain", 3, "Extreme") >>

\* variant: the table built by the first call only, every later call returning
\* the array helper.ts already holds
createCallCached(arrs, held) ==
    IF held # 0 THEN [arrays |-> arrs, ref |-> held]
    ELSE [arrays |-> Append(arrs, create_base_matrix), ref |-> Len(arrs) + 1]
\* one call of create_base_matrix: `data = [ ... ]; return data;` evaluates the
\* array literal anew, so the call builds an array and returns its reference
createCall(arrs, held) ==
    [arrays |-> Append(arrs, create_base_matrix), ref |-> Len(arrs) + 1]

\* `this.data = create_base_matrix()` in the constructor: the first call
ConstructedTable ==
    /\ arrays = createCall(<< >>, 0).arrays
    /\ moduleData = createCall(<< >>, 0).ref
    /\ returned = << >>
    /\ data = arrays[moduleData]

\* the key of the cells join: `${d.consequence}|${d.likelihood}`
cellKey(d) == <<d.consequence, d.likelihood>>

\* the keys of the rect.cell elements after cells.join(enter, update, exit): a
\* rectangle stays for each datum whose key it already has, one is appended for
\* each other datum, in the order of the data, and the rest are removed
cellsJoin(old, dat) ==
    LET oldKeys == { old[i] : i \in DOMAIN old }
        keys == [i \in DOMAIN dat |-> cellKey(dat[i])]
    IN SelectSeq(old, LAMBDA k : k \in { keys[i] : i \in DOMAIN keys })
        \o SelectSeq(keys, LAMBDA k : k \notin oldKeys)

\* the key of the points join: `${d.category}-${d.consequenceIdx}-${d.likelihoodIdx}`
pointKey(d) == <<d.category, d.consequenceIdx, d.likelihoodIdx>>

\* the attributes the enter branch gives a new circle: r, and cx, cy as the
\* cell of the item and the offset from the centre of that cell
circleEnter(d) ==
    [key |-> pointKey(d),
     r |-> d.radius + Px(8),
     cell |-> <<d.consequenceLabel, d.likelihoodLabel>>,
     dx |-> d.jitterX,
     dy |-> d.jitterY]
\* the attributes the update branch sets on a circle that stays
circleUpdate(d) ==
    [key |-> pointKey(d),
     r |-> d.radius + Px(8),
     cell |-> <<d.consequenceLabel, d.likelihoodLabel>>,
     dx |-> d.jitterX,
     dy |-> d.jitterY]

\* the circles after points.join(enter, update, exit): a circle stays for the
\* first datum that has its key, one is created for every other datum, the
\* rest are removed; the joined selection is in the order of the data
pointsJoin(old, jittered) ==
    LET oldKeys == { old[i].key : i \in DOMAIN old }
        first(i) == \A j \in 1..(i - 1) : pointKey(jittered[j]) # pointKey(jittered[i])
    IN [i \in DOMAIN jittered |->
            IF pointKey(jittered[i]) \in oldKeys /\ first(i)
            THEN circleUpdate(jittered[i])
            ELSE circleEnter(jittered[i])]

\* variant: the extracted items pushed onto the previous list
assignRisksPush(old, extracted) == old \o extracted
\* `this.risks = categoryColumn.values.map(...).filter(...)`: the assignment
\* replaces the previous list
assignRisks(old, extracted) == extracted

Init ==
    /\ risks = << >>
    /\ placed = << >>
    /\ band = <<0, 0>>
    /\ ConstructedTable
    /\ cells = << >>
    /\ points = << >>
    /\ categorical = << >>
    /\ pc = "constructed"
    /\ n = 0
    /\ bandW = 0
    /\ bandH = 0
    /\ out = NoOut

\* update with a categorical data view: extractData replaces this.risks, then renderChart
UpdateCategorical ==
    \E input \in RowLists, viewport \in Viewports :
        /\ risks' = assignRisks(risks, extractData(input))
        /\ band' = bandsOf(viewport)
        /\ cells' = cellsJoin(cells, data)
        /\ placed' = calculateJitter(risks', band'[1], band'[2])
        /\ points' = pointsJoin(points, placed')
        /\ pc' = "rendered"
        /\ UNCHANGED <<data, categorical, helperVars, n, bandW, bandH, out>>

\* update with a data view that has no categorical mapping: extractData returns
\* at once (visual.ts:211), renderChart still runs
UpdateNoCategorical ==
    \E viewport \in Viewports :
        /\ band' = bandsOf(viewport)
        /\ cells' = cellsJoin(cells, data)
        /\ placed' = calculateJitter(risks, band'[1], band'[2])
        /\ points' = pointsJoin(points, placed')
        /\ pc' = "rendered"
        /\ UNCHANGED <<risks, data, categorical, helperVars, n, bandW, bandH, out>>

\* update without any data view returns before extractData and renderChart
\* (visual.ts:177) and leaves every field as it is
UpdateNoDataViews ==
    /\ pc' = "returned"
    /\ UNCHANGED <<risks, placed, band, data, cells, points, categorical, helperVars, n, bandW, bandH, out>>

Next == UpdateCategorical \/ UpdateNoCategorical \/ UpdateNoDataViews

Spec == Init /\ [][Next]_vars

(***************************************************************************)
(* Packing harness: the inputs are drawn by Init, one action per strategy  *)
(***************************************************************************)
PackInit ==
    /\ risks = << >>
    /\ placed = << >>
    /\ band = <<0, 0>>
    /\ ConstructedTable
    /\ cells = << >>
    /\ points = << >>
    /\ categorical = << >>
    /\ pc = "input"
    /\ n \in BucketSizes
    /\ \E cell \in CellPairs : bandW = cell[1] /\ bandH = cell[2]
    /\ out = NoOut

GridPack ==
    /\ pc = "input"
    /\ pc' = "A"
    /\ out' = packGrid(n, Px(bandW), Px(bandH))
    /\ UNCHANGED <<risks, placed, band, data, cells, points, categorical, helperVars, n, bandW, bandH>>

HexPack ==
    /\ pc = "input"
    /\ pc' = "B"
    /\ out' = packHex(n, HexPx(bandW), HexPx(bandH))
    /\ UNCHANGED <<risks, placed, band, data, cells, points, categorical, helperVars, n, bandW, bandH>>

PackNext == GridPack \/ HexPack

PackSpec == PackInit /\ [][PackNext]_vars

(***************************************************************************)
(* Extraction harness: Init draws the rows of the categorical data view,   *)
(* one action per shape of its value columns                               *)
(***************************************************************************)
\* rows with ratings written as level names, beside those of RowChoices
NamedChoices ==
    { [label |-> "R7", consequence |-> Str("Moderate"), likelihood |-> Num(20)],
      [label |-> "R8", consequence |-> Num(30), likelihood |-> Str("unlikely")],
      [label |-> "R9", consequence |-> Num(59), likelihood |-> Num(10)] }

CategoricalLists == SeqsUpTo(RowChoices \cup NamedChoices, MaxRows)

RatingRoles == {"riskConsequenceRating", "riskLikelihoodRating"}

\* the rows as extractData reads them when no value column has the role:
\* findIndex gives -1 and values[-1]?.values[idx] is undefined
withoutRole(input, role) ==
    [i \in DOMAIN input |->
        [label |-> input[i].label,
         consequence |-> IF role = "riskConsequenceRating" THEN Undefined
                         ELSE input[i].consequence,
         likelihood |-> IF role = "riskLikelihoodRating" THEN Undefined
                        ELSE input[i].likelihood]]

ExtractInit ==
    /\ risks = << >>
    /\ placed = << >>
    /\ band = <<0, 0>>
    /\ ConstructedTable
    /\ cells = << >>
    /\ points = << >>
    /\ categorical \in CategoricalLists
    /\ pc = "input"
    /\ n = 0
    /\ bandW = 0
    /\ bandH = 0
    /\ out = NoOut

\* extractData on a data view whose value columns carry both rating roles
ExtractRows ==
    /\ pc = "input"
    /\ pc' = "extracted"
    /\ risks' = assignRisks(risks, extractData(categorical))
    /\ UNCHANGED <<placed, band, data, cells, points, categorical, helperVars, n, bandW, bandH, out>>

\* extractData on a data view that lacks the value column of one rating role
ExtractWithoutRole ==
    \E role \in RatingRoles :
        /\ pc = "input"
        /\ pc' = role
        /\ risks' = assignRisks(risks, extractData(withoutRole(categorical, role)))
        /\ UNCHANGED <<placed, band, data, cells, points, categorical, helperVars, n, bandW, bandH, out>>

ExtractNext == ExtractRows \/ ExtractWithoutRole

ExtractSpec == ExtractInit /\ [][ExtractNext]_vars

(***************************************************************************)
(* Severity-table harness: callers of create_base_matrix beside the        *)
(* visual, which change the arrays they were handed, and updates of the    *)
(* visual that carry no rows                                               *)
(***************************************************************************)
MaxCalls == 2
\* what a caller does to an array it holds: overwrite entry 1 or 13, or pop
MutatedEntries == {1, 13}
MutatedCell == MatrixCell("Insignificant", "Rare", 3, "Extreme")

MatrixInit ==
    /\ risks = << >>
    /\ placed = << >>
    /\ band = <<0, 0>>
    /\ ConstructedTable
    /\ cells = << >>
    /\ points = << >>
    /\ categorical = << >>
    /\ pc = "constructed"
    /\ n = 0
    /\ bandW = 0
    /\ bandH = 0
    /\ out = NoOut

\* a caller other than the visual calls create_base_matrix
CallCreateBaseMatrix ==
    /\ Len(returned) < MaxCalls
    /\ arrays' = createCall(arrays, moduleData).arrays
    /\ moduleData' = createCall(arrays, moduleData).ref
    /\ returned' = Append(returned, moduleData')
    /\ pc' = "called"
    /\ UNCHANGED <<risks, placed, band, data, cells, points, categorical, n, bandW, bandH, out>>

\* a caller assigns to an entry of an array it was handed; the visual sees the
\* change when the array is the one this.data refers to (reference 1)
MutateEntry ==
    \E k \in DOMAIN returned, i \in MutatedEntries :
        /\ i \in DOMAIN arrays[returned[k]]
        /\ arrays' = [arrays EXCEPT ![returned[k]][i] = MutatedCell]
        /\ data' = arrays'[1]
        /\ pc' = "mutated"
        /\ UNCHANGED <<risks, placed, band, cells, points, categorical, moduleData, returned,
                       n, bandW, bandH, out>>

\* a caller pops the last entry of an array it was handed
MutatePop ==
    \E k \in DOMAIN returned :
        /\ Len(arrays[returned[k]]) = Len(create_base_matrix)
        /\ arrays' = [arrays EXCEPT ![returned[k]] =
                         SubSeq(arrays[returned[k]], 1, Len(arrays[returned[k]]) - 1)]
        /\ data' = arrays'[1]
        /\ pc' = "mutated"
        /\ UNCHANGED <<risks, placed, band, cells, points, categorical, moduleData, returned,
                       n, bandW, bandH, out>>

MatrixNext ==
    \/ CallCreateBaseMatrix
    \/ MutateEntry
    \/ MutatePop
    \/ UpdateNoCategorical
    \/ UpdateNoDataViews

MatrixSpec == MatrixInit /\ [][MatrixNext]_vars

(***************************************************************************)
(* Properties of the packing strategies (checked under PackSpec)           *)
(***************************************************************************)
IsOrigin(o) == o.x.n = 0 /\ o.y.n = 0
\* |dx| <= usableW / 2 and |dy| <= usableH / 2
InUsable(o) ==
    /\ 2 * Abs(o.x.n) <= out.usableW * o.x.d
    /\ 2 * Abs(o.y.n) <= out.usableH * o.y.d
\* |dx| + radius <= cellW / 2 and |dy| + radius <= cellH / 2
MarkerInCell(o) ==
    /\ 2 * Abs(o.x.n) + 2 * out.radius * o.x.d <= out.cellW * o.x.d
    /\ 2 * Abs(o.y.n) + 2 * out.radius * o.y.d <= out.cellH * o.y.d
\* Euclidean distance of two offsets of one result >= 2 * radius (the offsets
\* of one result share their denominators)
Apart(a, b) ==
    LET dxn == Abs(a.x.n - b.x.n)
        dyn == Abs(a.y.n - b.y.n)
        dxd == a.x.d
        dyd == a.y.d
        lim == 2 * out.radius
    IN \/ dxn >= lim * dxd
       \/ dyn >= lim * dyd
       \/ (dxn * dyd) * (dxn * dyd) + (dyn * dxd) * (dyn * dxd)
              >= (lim * dxd * dyd) * (lim * dxd * dyd)

\* C1: Strategy A returns exactly n offsets, one for each index 0..n-1 the
\* placement loop reads, for every bucket size and cell size
C1_GridReturnsN ==
    pc = "A" => (Len(out.offsets) = n /\ DOMAIN out.offsets = 1..n)
C1_Witness ==
    pc = "A" /\ n = BigBucket /\ bandW = 0 /\ bandH = 0 /\ Len(out.offsets) = BigBucket

\* C2: when the grid search accepts a candidate, any two distinct offsets of
\* the bucket are at distance >= 2 x radius
C2_AcceptedNoOverlap ==
    (pc = "A" /\ out.accepted) =>
        \A i, j \in 1..Len(out.offsets) :
            i # j => Apart(out.offsets[i], out.offsets[j])
C2_Witness ==
    pc = "A" /\ out.accepted /\ n = 3 /\ bandW = 200 /\ bandH = 150

\* C3: when the grid search accepts a candidate, every offset lies in the
\* usable area and the whole marker lies in the cell
C3_AcceptedInBounds ==
    (pc = "A" /\ out.accepted) =>
        \A i \in 1..Len(out.offsets) :
            InUsable(out.offsets[i]) /\ MarkerInCell(out.offsets[i])
C3_Witness ==
    /\ pc = "A" /\ out.accepted /\ n >= 2
    /\ \E i \in 1..Len(out.offsets) :
          2 * Abs(out.offsets[i].x.n) = out.usableW * out.offsets[i].x.d

\* the pitch test of C4: usable / (count - 1), or usable when count = 1, >= 2 x radius
ClaimPitchOk(count, span, radius) ==
    IF count > 1 THEN span >= 2 * radius * (count - 1) ELSE span >= 2 * radius
\* C4: if some column count c, with ceil(n / c) rows, has both evenly
\* distributed pitches >= 2 x radius, the returned offsets lie in the usable area
C4_FallbackOnlyBeyondCapacity ==
    ( /\ pc = "A"
      /\ \E c \in 1..(n + 1) :
            /\ ClaimPitchOk(c, out.usableW, out.radius)
            /\ ClaimPitchOk(CeilDiv(n, c), out.usableH, out.radius) )
    => \A i \in 1..Len(out.offsets) : InUsable(out.offsets[i])

C6_SingleItemAtCentre ==
    /\ (pc = "A" /\ n = 1) => (Len(out.offsets) = 1 /\ IsOrigin(out.offsets[1]))
    /\ (pc = "B" /\ n = 1) => out.offsets = << [x |-> 0, y |-> 0] >>
C6_Witness ==
    pc = "A" /\ n = 1 /\ out.accepted /\ bandW > bandH /\ IsOrigin(out.offsets[1])

\* C7: for a zero-size cell Strategy A returns the floor radius and every
\* offset is (0, 0)
C7_ZeroCellCollapses ==
    (pc = "A" /\ bandW = 0 /\ bandH = 0) =>
        /\ out.radius = Px(RADIUS_FLOOR)
        /\ \A i \in 1..Len(out.offsets) : IsOrigin(out.offsets[i])

\* C8: Strategy B returns exactly n offsets for every n >= 0
C8_HexReturnsN ==
    pc = "B" => Len(out.offsets) = n

\* C9: beyond the lattice capacity C = cols x rows > 1, item i reuses the
\* offset of item i mod C
C9_HexCyclicReuse ==
    (pc = "B" /\ out.cols * out.rows > 1 /\ n > out.cols * out.rows) =>
        \A i \in (out.cols * out.rows)..(n - 1) :
            out.offsets[i + 1] = out.offsets[(i % (out.cols * out.rows)) + 1]

(***************************************************************************)
(* Properties of the visual (checked under Spec)                           *)
(***************************************************************************)
\* the Risk fields a placed item inherits from its risk item
RiskPart(p) ==
    [category |-> p.category,
     consequenceIdx |-> p.consequenceIdx,
     likelihoodIdx |-> p.likelihoodIdx,
     selectionId |-> p.selectionId,
     rowIndex |-> p.rowIndex]
Occurrences(seq, e) == Cardinality({i \in DOMAIN seq : seq[i] = e})
PlacedRisks == [i \in DOMAIN placed |-> RiskPart(placed[i])]

\* C10: the placed list holds exactly one placed item per extracted risk item,
\* each with the radius of the cell and the labels of its own indices
C10_NoItemDropped ==
    /\ Len(placed) = Len(risks)
    /\ \A i \in DOMAIN risks :
          Occurrences(PlacedRisks, risks[i]) = Occurrences(risks, risks[i])
    /\ \A i \in DOMAIN placed :
          /\ placed[i].consequenceIdx \in 1..5
          /\ placed[i].likelihoodIdx \in 1..5
          /\ placed[i].consequenceLabel = riskConsequenceLevels[placed[i].consequenceIdx]
          /\ placed[i].likelihoodLabel = riskLikelihoodLevels[placed[i].likelihoodIdx]
          /\ placed[i].radius = radiusOf(cellDim(band[1]), cellDim(band[2]))
          /\ placed[i].jitterX.d > 0 /\ placed[i].jitterY.d > 0
C10_Witness ==
    /\ Len(risks) >= 3
    /\ Len(placed) = Len(risks)
    /\ \E i \in DOMAIN placed : RiskPart(placed[i]) # risks[i]
    /\ \E i \in DOMAIN placed : placed[i].consequenceIdx = 5
(***************************************************************************)
(* Properties of calculateJitter across buckets and refreshes (Spec)       *)
(***************************************************************************)
BucketKeys(items) == { groupKey(items[i]) : i \in DOMAIN items }
\* the offsets and radius of the items of one bucket, in the order they were placed
BucketLayout(items, key) ==
    LET g == SelectSeq(items, LAMBDA d : groupKey(d) = key)
    IN [i \in DOMAIN g |-> [x |-> g[i].jitterX, y |-> g[i].jitterY, radius |-> g[i].radius]]
SameLayout(items1, k1, items2, k2) ==
    Len(BucketLayout(items1, k1)) = Len(BucketLayout(items2, k2))
        => BucketLayout(items1, k1) = BucketLayout(items2, k2)

\* C11: the radius and offsets of a bucket depend only on its item count and on
\* the cell size: two buckets of the same size get the same layout, whether
\* they are two cells of one refresh or belong to two successive refreshes
\* with the same band widths, whatever their labels, rows and neighbours
C11_LayoutDependsOnCountAndCell ==
    [][ /\ \A k1, k2 \in BucketKeys(placed') : SameLayout(placed', k1, placed', k2)
        /\ band' = band =>
             \A k1 \in BucketKeys(placed), k2 \in BucketKeys(placed') :
                 SameLayout(placed, k1, placed', k2) ]_vars
\* a bucket of two items drawn beside another bucket
C11_Witness ==
    \E k1, k2 \in BucketKeys(placed) :
        /\ k1 # k2
        /\ Len(BucketLayout(placed, k1)) = 2
        /\ ~ IsOrigin(BucketLayout(placed, k1)[1])

(***************************************************************************)
(* Strategy A on two cells that differ in one dimension (PackSpec)         *)
(***************************************************************************)
\* the squared distance of two offsets of one result, as a fraction; the
\* coordinate differences are even multiples of the half pitch
SqDist(a, b) ==
    LET dxn == Abs(a.x.n - b.x.n) \div 2
        dyn == Abs(a.y.n - b.y.n) \div 2
        dxd == a.x.d \div 2
        dyd == a.y.d \div 2
    IN Frac((dxn * dyd) * (dxn * dyd) + (dyn * dxd) * (dyn * dxd),
            (dxd * dyd) * (dxd * dyd))
\* the minimum squared pairwise distance of a result with two offsets or more
MinSqDist(res) ==
    LET pairs == { p \in (1..Len(res.offsets)) \X (1..Len(res.offsets)) : p[1] < p[2] }
        S == { SqDist(res.offsets[p[1]], res.offsets[p[2]]) : p \in pairs }
    IN CHOOSE f \in S : \A g \in S : FracLeq(f.n, f.d, g.n, g.d)
NotCloser(small, large) ==
    FracLeq(MinSqDist(small).n, MinSqDist(small).d,
            MinSqDist(large).n, MinSqDist(large).d)

\* C12: for n >= 2, a cell that is wider, or taller, with the other dimension
\* unchanged, never gives a smaller minimum pairwise distance
C12_MonotonicCapacity ==
    (pc = "A" /\ n >= 2) =>
        \A larger \in CellSizes :
            /\ larger > bandW => NotCloser(out, packGrid(n, Px(larger), Px(bandH)))
            /\ larger > bandH => NotCloser(out, packGrid(n, Px(bandW), Px(larger)))

(***************************************************************************)
(* Properties of extractData (checked under ExtractSpec)                   *)
(***************************************************************************)
\* the rows as the extraction that has run read them
RowsRead ==
    IF pc \in RatingRoles THEN withoutRole(categorical, pc) ELSE categorical
\* a rating is valid when it converts to a finite number whose floor is in 1..5
ValidRating(v) == Number(v).finite /\ (Number(v).v \div 10) \in 1..5
ValidRow(row) == ValidRating(row.consequence) /\ ValidRating(row.likelihood)

\* C13: every item of the risk list has both indices in 1..5, each the floor of
\* the numeric rating of its row; a row with a rating that is not finite or
\* whose floor is outside 1..5 is excluded, every other row is kept
C13_IndicesInRange ==
    pc # "input" =>
        /\ \A i \in DOMAIN risks :
            LET row == RowsRead[risks[i].rowIndex + 1] IN
            /\ risks[i].consequenceIdx \in 1..5
            /\ risks[i].likelihoodIdx \in 1..5
            /\ risks[i].consequenceIdx = Number(row.consequence).v \div 10
            /\ risks[i].likelihoodIdx = Number(row.likelihood).v \div 10
        /\ \A j \in DOMAIN RowsRead :
            ValidRow(RowsRead[j]) <=> (\E i \in DOMAIN risks : risks[i].rowIndex = j - 1)
\* a row rated 3.7 kept with index 3 beside rows rated 0 and "nonsense" left out
C13_Witness ==
    /\ pc = "extracted"
    /\ \E j \in DOMAIN categorical : categorical[j].consequence = Num(0)
    /\ \E j \in DOMAIN categorical : categorical[j].consequence = Str("nonsense")
    /\ \E i \in DOMAIN risks :
        /\ categorical[risks[i].rowIndex + 1].consequence = Num(37)
        /\ risks[i].consequenceIdx = 3

\* value.trim().toLowerCase() on the strings of the data views above
toLowerCase(s) ==
    CASE s = "Insignificant" -> "insignificant"
      [] s = "Minor" -> "minor"
      [] s = "Moderate" -> "moderate"
      [] s = "Major" -> "major"
      [] s = "Catastrophic" -> "catastrophic"
      [] s = "Rare" -> "rare"
      [] s = "Unlikely" -> "unlikely"
      [] s = "Possible" -> "possible"
      [] s = "Likely" -> "likely"
      [] s = "Almost Certain" -> "almost certain"
      [] OTHER -> s
\* the ordinal a rating stands for: the position of the level it names, or the
\* floor of a valid number; 0 when it stands for none
ordinalOf(v, levels) ==
    IF v.t = "str" /\ \E k \in DOMAIN levels : toLowerCase(levels[k]) = toLowerCase(v.v)
    THEN CHOOSE k \in DOMAIN levels : toLowerCase(levels[k]) = toLowerCase(v.v)
    ELSE IF ValidRating(v) THEN Number(v).v \div 10
    ELSE 0

\* C14: a row whose ratings are level names, in any letter case, or valid
\* numbers is kept with the ordinals they stand for, the k-th name giving the
\* same index as the number k
C14_NamesNormalized ==
    pc = "extracted" =>
        \A j \in DOMAIN categorical :
            LET c == ordinalOf(categorical[j].consequence, riskConsequenceLevels)
                l == ordinalOf(categorical[j].likelihood, riskLikelihoodLevels)
            IN (c > 0 /\ l > 0) =>
                \E i \in DOMAIN risks :
                    /\ risks[i].rowIndex = j - 1
                    /\ risks[i].consequenceIdx = c
                    /\ risks[i].likelihoodIdx = l

(***************************************************************************)
(* Properties of update across refreshes (checked under Spec)              *)
(***************************************************************************)
\* C15: a refresh whose data view has no categorical mapping leaves the risk
\* list empty and draws no item of an earlier refresh
C15_MissingSourceClearsRisks ==
    [][UpdateNoCategorical => (risks' = << >> /\ placed' = << >>)]_vars

\* the 25 (consequence, likelihood) pairs of the matrix
LevelPairs ==
    { <<riskConsequenceLevels[c], riskLikelihoodLevels[l]>> :
        c \in DOMAIN riskConsequenceLevels, l \in DOMAIN riskLikelihoodLevels }

\* C16: once a refresh has run, however its data view looked, the background
\* holds one rectangle for each of the 25 cells of the severity table
C16_BackgroundRendered ==
    pc \in {"rendered", "returned"} =>
        /\ Len(cells) = 25
        /\ { cells[i] : i \in DOMAIN cells } = LevelPairs

(***************************************************************************)
(* Order of the extracted items (checked under ExtractSpec)                *)
(***************************************************************************)
\* the positions (1-based) of the valid rows, ascending
ValidPositions ==
    SelectSeq([j \in 1..Len(RowsRead) |-> j], LAMBDA j : ValidRow(RowsRead[j]))

\* C17: the risk list is the subsequence of the valid rows, in the order of the
\* rows: its i-th item comes from the i-th valid row and carries its label
C17_RowOrderPreserved ==
    pc # "input" =>
        /\ Len(risks) = Len(ValidPositions)
        /\ \A i \in DOMAIN risks :
            /\ risks[i].rowIndex = ValidPositions[i] - 1
            /\ risks[i].category = RowsRead[ValidPositions[i]].label
\* two kept rows of different labels with an excluded row between them
C17_Witness ==
    /\ pc = "extracted"
    /\ Len(categorical) = 3
    /\ Len(risks) = 2
    /\ risks[1].rowIndex = 0
    /\ risks[2].rowIndex = 2
    /\ risks[1].category # risks[2].category

(***************************************************************************)
(* Grouping into buckets, read off the placed items (checked under Spec)   *)
(***************************************************************************)
\* the position in a list of the item extracted from a row
PositionOf(items, rowIndex) ==
    CHOOSE i \in DOMAIN items : items[i].rowIndex = rowIndex
\* the position in a list of the first item of a bucket
FirstOfBucket(items, key) ==
    CHOOSE i \in DOMAIN items :
        /\ groupKey(items[i]) = key
        /\ \A j \in 1..(i - 1) : groupKey(items[j]) # key
\* the buckets of a list, laid end to end in iteration order, are `grouped`
StablePartition(items, grouped) ==
    /\ Len(grouped) = Len(items)
    /\ \A i \in DOMAIN items :
        \E j \in DOMAIN grouped :
            /\ RiskPart(grouped[j]) = items[i]
            /\ \A k \in DOMAIN grouped :
                grouped[k].rowIndex = items[i].rowIndex => k = j
    /\ \A a, b \in DOMAIN grouped :
        a < b =>
            IF groupKey(grouped[a]) = groupKey(grouped[b])
            THEN PositionOf(items, grouped[a].rowIndex)
                    < PositionOf(items, grouped[b].rowIndex)
            ELSE FirstOfBucket(items, groupKey(grouped[a]))
                    < FirstOfBucket(items, groupKey(grouped[b]))
RowOrder(grouped) == [i \in DOMAIN grouped |-> grouped[i].rowIndex]

\* C18: every item is in exactly one bucket, that of its (consequenceIdx,
\* likelihoodIdx); a bucket keeps the relative order of its items; the buckets
\* come in the order of their first item; grouping an unchanged list again
\* gives the same buckets in the same order
C18_StableGrouping ==
    [][ /\ StablePartition(risks', placed')
        /\ risks' = risks => RowOrder(placed') = RowOrder(placed) ]_vars
\* the items of one bucket are apart in the list and adjacent once grouped
C18_Witness ==
    /\ Len(placed) = 3
    /\ placed[1].rowIndex = 0
    /\ placed[2].rowIndex = 2
    /\ placed[3].rowIndex = 1
    /\ groupKey(placed[1]) = groupKey(placed[2])
    /\ groupKey(placed[3]) # groupKey(placed[1])

\* C19: the placed items are those of the current risk list in the current
\* bands, and a second update with the data view of the first leaves the risk
\* list of the first, whatever the list was before: with the same viewport the
\* same items are placed in the same order with the same offsets and radius
C19_RepeatedUpdateSameLayout ==
    pc = "rendered" =>
        /\ placed = calculateJitter(risks, band[1], band[2])
        /\ \A input \in RowLists :
            LET first == assignRisks(risks, extractData(input))
                second == assignRisks(first, extractData(input))
            IN second = first
\* a refresh has drawn three items, which the next update finds in the list
C19_Witness ==
    /\ pc = "rendered"
    /\ Len(risks) = 3
    /\ Len(placed) = 3
    /\ \E i \in DOMAIN placed : ~ IsOrigin([x |-> placed[i].jitterX, y |-> placed[i].jitterY])

(***************************************************************************)
(* The severity table held by the visual (checked under Spec)              *)
(***************************************************************************)
RiskBands == {"Low", "Moderate", "High", "Extreme"}

\* C20: the table has exactly 25 entries, one for each pair of a consequence
\* level and a likelihood level, each with a colour index in 0..3 and a band
\* among Low, Moderate, High, Extreme
C20_SeverityTableShape ==
    /\ Len(data) = 25
    /\ \A pair \in LevelPairs :
        Cardinality({ i \in DOMAIN data : cellKey(data[i]) = pair }) = 1
    /\ \A i \in DOMAIN data :
        /\ cellKey(data[i]) \in LevelPairs
        /\ data[i].colour \in 0..3
        /\ data[i].risk \in RiskBands
\* the table of a visual that has rendered, with its two corner entries
C20_Witness ==
    /\ pc = "rendered"
    /\ data[1] = MatrixCell("Insignificant", "Rare", 0, "Low")
    /\ data[Len(data)] = MatrixCell("Catastrophic", "Almost Certain", 3, "Extreme")
    /\ Len(cells) = Len(data)

(***************************************************************************)
(* The severity table across calls and callers (checked under MatrixSpec)  *)
(***************************************************************************)
\* C21: whatever callers did to the arrays earlier calls handed them, a call of
\* create_base_matrix returns the original 25 entries, and the table the
\* visual holds stays the original one through every update
C21_NoCrossCallMutation ==
    /\ pc = "called" => arrays[returned[Len(returned)]] = create_base_matrix
    /\ data = create_base_matrix
\* a call made after a caller changed the array of an earlier call, the visual
\* having rendered in between
C21_Witness ==
    /\ pc = "called"
    /\ Len(returned) = 2
    /\ arrays[returned[1]] # create_base_matrix
    /\ Len(cells) = Len(data)

(***************************************************************************)
(* The grid Strategy A selects and lays out (checked under PackSpec)       *)
(***************************************************************************)
\* the grid bestGrid returns for the bucket and cell of the harness
ChosenGrid == bestGrid(n, out.radius, out.usableW, out.usableH)
Candidates == candidates(n, out.radius, out.usableW, out.usableH)
Score(cols) == minPitch(n, cols, out.usableW, out.usableH)

\* C22: when candidates survive, the returned grid is the candidate with the
\* largest min(pitchX, pitchY), the smallest column count among those of equal
\* minimum, with r = ceil(n / c) rows and the two pitches of that candidate;
\* the offsets are those of this grid
C22_SelectionRule ==
    (pc = "A" /\ out.accepted) =>
        /\ ChosenGrid.cols \in Candidates
        /\ ChosenGrid.rows = Max2(1, CeilDiv(n, ChosenGrid.cols))
        /\ \A d \in Candidates :
            /\ ~ FracLess(Score(ChosenGrid.cols), Score(d))
            /\ FracEq(Score(ChosenGrid.cols), Score(d)) => ChosenGrid.cols <= d
        /\ ChosenGrid.pitchX = actualPitch(ChosenGrid.cols, out.usableW)
        /\ ChosenGrid.pitchY = actualPitch(ChosenGrid.rows, out.usableH)
        /\ out.offsets = positionsFor(n, ChosenGrid.cols, ChosenGrid.rows,
                                      ChosenGrid.pitchX, ChosenGrid.pitchY)
\* the chosen grid beats a candidate of smaller score and ties with a wider one
C22_Witness ==
    /\ pc = "A"
    /\ out.accepted
    /\ n >= 3
    /\ \E d \in Candidates : FracLess(Score(d), Score(ChosenGrid.cols))
    /\ \E d \in Candidates :
        d > ChosenGrid.cols /\ FracEq(Score(d), Score(ChosenGrid.cols))
    /\ \E d \in Candidates : d < ChosenGrid.cols

\* the lattice point of item i (0-based) in a grid of c columns: column i mod c
\* and row floor(i / c), the lattice being centred on the cell centre
LatticeX(i) ==
    Frac(ChosenGrid.pitchX.n * (2 * (i % ChosenGrid.cols) - (ChosenGrid.cols - 1)),
         2 * ChosenGrid.pitchX.d)
LatticeY(i) ==
    Frac(ChosenGrid.pitchY.n * (2 * (i \div ChosenGrid.cols) - (ChosenGrid.rows - 1)),
         2 * ChosenGrid.pitchY.d)

C24_RadiusAndPadding ==
    pc = "A" =>
        /\ 10 * out.radius = Max2(10 * Px(4), Min2(out.cellW, out.cellH))
        /\ innerPad(out.radius) = 2 * out.radius
        /\ out.usableW = Max2(0, out.cellW - 2 * (2 * out.radius))
        /\ out.usableH = Max2(0, out.cellH - 2 * (2 * out.radius))
        /\ Min2(out.cellW, out.cellH) >= Px(40) =>
             2 * out.radius + 2 * (2 * out.radius) <= Min2(out.cellW, out.cellH)
\* the 200 x 150 cell, whose radius 15 px is above the floor
C24_Witness ==
    /\ pc = "A"
    /\ bandW = 200
    /\ bandH = 150
    /\ out.radius = Px(15)
    /\ out.usableH = Px(90)

(***************************************************************************)
(* The circles drawn for the placed items (checked under Spec)             *)
(***************************************************************************)
\* C25: after a refresh has rendered, the circle of each placed item has the
\* radius the packing step computed for it, whether the circle was created or
\* updated by the join
C25_DrawnRadiusIsPackedRadius ==
    pc = "rendered" =>
        /\ Len(points) = Len(placed)
        /\ \A i \in DOMAIN points : points[i].r = placed[i].radius

(***************************************************************************)
(* Strategy B within its capacity (checked under PackSpec)                 *)
(***************************************************************************)
\* |dx| <= usableW / 2 and |dy| <= usableH / 2 for an offset in lattice units:
\* dx = x * pitchX / 4 and dy = y * pitchY / 2
HexInUsable(o) ==
    /\ Abs(o.x) * hexPitchX(out.radius) <= 2 * out.usableW
    /\ rowsFit(Abs(o.y), out.usableH, out.radius)

\* C26: when n is at most cols x rows, every offset of Strategy B lies inside
\* the usable area, lattices of one column and several rows included
C26_HexInBounds ==
    (pc = "B" /\ n <= out.cols * out.rows) =>
        \A i \in DOMAIN out.offsets : HexInUsable(out.offsets[i])

RowLookedUp(d) == RowsRead[d.rowIndex + 1]

\* C28: the rowIndex of a kept item, and the index its selection identity was
\* built with, is a position of the source column at which the item's own row
\* stands, however many earlier rows were dropped, and two kept items never
\* have the same rowIndex
C28_RowIndexIsSourcePosition ==
    pc # "input" =>
        /\ \A i \in DOMAIN risks :
            /\ risks[i].rowIndex \in 0..(Len(RowsRead) - 1)
            /\ risks[i].selectionId = risks[i].rowIndex
            /\ RowLookedUp(risks[i]).label = risks[i].category
            /\ clampIndex(RowLookedUp(risks[i]).consequence).idx = risks[i].consequenceIdx
            /\ clampIndex(RowLookedUp(risks[i]).likelihood).idx = risks[i].likelihoodIdx
            /\ i - 1 <= risks[i].rowIndex
        /\ \A i, j \in DOMAIN risks :
            i # j => risks[i].rowIndex # risks[j].rowIndex
\* two rows were dropped before the only kept row, which keeps row index 2
C28_Witness ==
    /\ pc = "extracted"
    /\ Len(categorical) = 3
    /\ Len(risks) = 1
    /\ risks[1].rowIndex = 2
    /\ categorical[3].label = risks[1].category
    /\ categorical[1].label # risks[1].category
    /\ categorical[2].label # risks[1].category

(***************************************************************************)
(* Colours and bands of the severity table (checked under Spec)            *)
(***************************************************************************)
\* the ordinal (1..5) of a level name in a level list
OrdinalIn(levels, name) == CHOOSE k \in DOMAIN levels : levels[k] = name

\* C29: a cell whose consequence ordinal and likelihood ordinal are both at
\* least those of another cell has a colour bucket at least that of the other
C29_ColourMonotone ==
    \A i, j \in DOMAIN data :
        ( /\ OrdinalIn(riskConsequenceLevels, data[i].consequence)
                >= OrdinalIn(riskConsequenceLevels, data[j].consequence)
          /\ OrdinalIn(riskLikelihoodLevels, data[i].likelihood)
                >= OrdinalIn(riskLikelihoodLevels, data[j].likelihood) )
            => data[i].colour >= data[j].colour
\* the table of a visual that has rendered, rising from bucket 0 to bucket 3
\* along the diagonal
C29_Witness ==
    /\ pc = "rendered"
    /\ Len(data) = 25
    /\ data[1].colour = 0
    /\ data[7].colour = 0
    /\ data[13].colour = 1
    /\ data[19].colour = 3
    /\ data[25].colour = 3

\* the band a colour bucket stands for, in the order of the palette keys
\* risk-low, risk-moderate, risk-high, risk-extreme
BandOfColour == <<"Low", "Moderate", "High", "Extreme">>

\* C30: two cells of the same colour bucket have the same severity band, bucket
\* 0, 1, 2, 3 standing for Low, Moderate, High, Extreme
C30_ColourAgreesWithBand ==
    /\ \A i, j \in DOMAIN data :
        data[i].colour = data[j].colour => data[i].risk = data[j].risk
    /\ \A i \in DOMAIN data :
        data[i].colour \in 0..3 => data[i].risk = BandOfColour[data[i].colour + 1]

====
